---- MODULE Spec2Model ----
(***************************************************************************)
(* State-machine model of skid-homework's persistence core:                *)
(*   - DatabaseManager (src/src/utils/db.ts 32-352): the IndexedDB store,  *)
(*   - useProblemsStore (src/src/utils/db.ts 429-666): the zustand state   *)
(*     container whose actions mirror their result to the store.           *)
(*                                                                         *)
(* Host model (IndexedDB, the event loop).  A DatabaseManager method is an *)
(* async function: it first awaits ensureDB.  When this.db is set, the     *)
(* await resumes in a microtask, so the method's transaction is created    *)
(* before any other task runs: the operation goes straight to txQueue.     *)
(* When this.db is null, ensureDB calls initDB, which issues an open       *)
(* request of its own; the operation waits in openQueue until that request *)
(* fires success or error.  Open requests of one database are served in    *)
(* the order issued.  Transactions whose scopes overlap run in the order   *)
(* created; operations on different stores or different keys commute, and  *)
(* the model lets them complete in either order.  Any request may fail.    *)
(* A promise resolved from request.onsuccess is taken as durable: a commit *)
(* failing after its requests succeeded is outside the model.              *)
(*                                                                         *)
(* Also modelled: the selection logic of SolutionsArea                     *)
(* (src/unnamed/part_003) and SolutionViewer                               *)
(* (src/src/components/SolutionViewer.tsx), and the AI source registry     *)
(* useAiStore (src/unnamed/part_000).  The registry is wrapped in          *)
(* zustand's persist middleware over localStorage: each set() is followed  *)
(* at once by a write of the partialized state, taken to succeed, and a    *)
(* newly created store is hydrated from the stored document.  Math.random  *)
(* returns one of RandomDenominator equally spaced values of [0, 1).       *)
(***************************************************************************)
EXTENDS Integers, Sequences, FiniteSets, TLC

\* ------------------------------------------------------------------ bounds
MaxItems == 2        \* item ids available to addFileItems / addSolution
MaxCalls == 2        \* action invocations per behaviour, all actions enabled
MaxFocusCalls == 3   \* action invocations per behaviour, in the narrower specifications
MaxBatch == 2        \* items in one addFileItems batch
MaxSessionCalls == 2 \* action invocations per behaviour, over a database left by an earlier session
MaxRegistryCalls == 3 \* registry operations per behaviour

ItemIds == 1..MaxItems
Statuses == {"pending", "success", "failed"}
\* Shapes of the Solution given to addSolution: <<success, problem count>>.
SolutionShapes == {<<TRUE, 2>>, <<TRUE, 0>>, <<FALSE, 0>>}
\* problemIndex arguments tried: negative, in range, == length, > length.
ProblemIndexes == {-1, 0, 1, 2, 3}
\* selectedProblem arguments tried.
SelectedProblemArgs == {-1, 0, 1, 2}
\* selectedImage: undefined (no url)
NoUrl == 0
\* An object URL created by an earlier session, persisted as selectedImage.
OldUrl == -1
\* const DB_VERSION
DB_VERSION == 2
\* const STORES
STORES == {"fileItems", "solutions", "appState"}

\* --------------------------------------------------- JavaScript values
\* The value `undefined`.
Undefined == [type |-> "undefined"]

\* A JavaScript array: its length and its own properties (index keys, and
\* any other integer-like key such as "-1").  An index below length that is
\* not in props is a hole.
ArrayOf(seq) ==
    [length |-> Len(seq), props |-> [i \in 0..(Len(seq) - 1) |-> seq[i + 1]]]

\* arr[k]
ArrayGet(arr, k) == IF k \in DOMAIN arr.props THEN arr.props[k] ELSE Undefined

\* [...arr]: a dense copy of the indexed elements; holes become undefined,
\* non-index properties are dropped.
ArraySpread(arr) ==
    [length |-> arr.length,
     props |-> [i \in 0..(arr.length - 1) |-> ArrayGet(arr, i)]]

\* arr[k] = v: an index >= length grows the array (leaving holes); a
\* negative k is an ordinary property and leaves length alone.
ArraySet(arr, k, v) ==
    [length |-> IF k >= arr.length THEN k + 1 ELSE arr.length,
     props |-> [j \in (DOMAIN arr.props) \cup {k} |->
                    IF j = k THEN v ELSE arr.props[j]]]

\* { ...old, answer: a, explanation: e }: spreading undefined adds nothing.
SpreadWithAnswer(old, a, e) ==
    IF old = Undefined
    THEN [answer |-> a, explanation |-> e]
    ELSE [f \in (DOMAIN old) \cup {"answer", "explanation"} |->
              IF f = "answer" THEN a
              ELSE IF f = "explanation" THEN e
              ELSE old[f]]

\* ------------------------------------------------------------- records
\* A FileItem as the callers of addFileItems build it (db.ts 361-370).
NewFileItem(id, url) ==
    [id |-> id,
     file |-> [name |-> "f", lastModified |-> 1, type |-> "image/png",
               bytes |-> id],
     mimeType |-> "image/png",
     url |-> url,
     source |-> "upload",
     status |-> "pending"]

\* A Solution with n problems (db.ts 373-383).
NewProblem(i) == [problem |-> i, answer |-> "a0", explanation |-> "e0"]
NewSolution(id, ok, n) ==
    [fileItemId |-> id,
     success |-> ok,
     problems |-> ArrayOf([i \in 1..n |-> NewProblem(i)])]

\* The value `null`.
Null == [type |-> "null"]

\* A string value, where null is possible too.
Str(chars) == [type |-> "string", value |-> chars]

\* Source ids: the two fixed ones, the n-th crypto.randomUUID(), and an id
\* a caller makes up.
GeminiDefault == [fixed |-> "gemini-default"]
OpenAiDefault == [fixed |-> "openai-default"]
Uuid(n) == [uuid |-> n]
CustomId == [fixed |-> "custom"]

\* createDefaultSources(): the Gemini source takes its apiKey from the
\* legacy configuration (legacy?.apiKey ?? null), the OpenAI source has none
\* and is disabled.
CreateDefaultSources(legacyApiKey) ==
    <<[id |-> GeminiDefault, name |-> "Gemini", provider |-> "gemini",
       apiKey |-> legacyApiKey, enabled |-> TRUE],
      [id |-> OpenAiDefault, name |-> "OpenAI", provider |-> "openai",
       apiKey |-> Null, enabled |-> FALSE]>>

\* No registry operation has been called yet.
NothingReturned == [op |-> "none", given |-> Undefined, value |-> Undefined]

VARIABLES
    imageItems,       \* ProblemsState.imageItems
    imageSolutions,   \* ProblemsState.imageSolutions
    selectedImage,    \* ProblemsState.selectedImage
    selectedProblem,  \* ProblemsState.selectedProblem
    db,               \* DatabaseManager.db is set (TRUE) or null (FALSE)
    fileItemsStore,   \* object store "fileItems", keyed by id
    solutionsStore,   \* object store "solutions", keyed by fileItemId
    appStateStore,    \* object store "appState", keyed by key
    openQueue,        \* operations awaiting their own open request
    txQueue,          \* operations whose transaction is created, in order
    revoked,          \* per display handle: URL.revokeObjectURL calls
    usedIds,          \* item ids handed out so far
    consoleErrors,    \* console.error calls of the .catch / catch handlers
    uncaught,         \* rejections or exceptions no handler caught
    nCalls,           \* action invocations so far
    maxCalls,         \* the behaviour's budget of action invocations
    sequential,       \* TRUE: no action is invoked while operations are in flight
    version,          \* version of the database SkidHomeworkDB (0: none)
    objectStoreNames, \* the object stores the database has
    completed,        \* clearAll's counter of clear requests that succeeded
    clampDeps,        \* dependencies the clamp effect of SolutionsArea last ran with
    sources,          \* AiStore.sources
    activeSourceId,   \* AiStore.activeSourceId
    uuids,            \* ids crypto.randomUUID() has returned so far
    persisted,        \* localStorage item "ai-storage" (Null: none)
    legacy,           \* the apiKey found under localStorage "gemini-storage" (Null: none)
    returned          \* what the last registry operation returned

memVars == <<imageItems, imageSolutions, selectedImage, selectedProblem>>
storeVars == <<fileItemsStore, solutionsStore, appStateStore>>
vars == <<imageItems, imageSolutions, selectedImage, selectedProblem, db,
          fileItemsStore, solutionsStore, appStateStore, openQueue, txQueue,
          revoked, usedIds, consoleErrors, uncaught, nCalls, maxCalls,
          sequential, version, objectStoreNames, completed, clampDeps,
          sources, activeSourceId, uuids, persisted, legacy, returned>>
\* The scenario a behaviour is explored under; no step changes it.
scenarioVars == <<maxCalls, sequential>>
schemaVars == <<version, objectStoreNames>>
uiVars == <<clampDeps>>
registryVars == <<sources, activeSourceId, uuids, persisted, legacy, returned>>
\* Everything of useProblemsStore, DatabaseManager and the database.
problemVars == <<imageItems, imageSolutions, selectedImage, selectedProblem,
                 db, fileItemsStore, solutionsStore, appStateStore,
                 openQueue, txQueue, revoked, usedIds, consoleErrors,
                 uncaught, version, objectStoreNames, completed>>

EmptyStore == [k \in {} |-> Undefined]

\* The state after construction: the store's initial state (db.ts 431-435),
\* DatabaseManager.db null (db.ts 33), no database yet, SolutionsArea not yet
\* mounted, the registry with its default sources and no legacy key.
InitSession(budget, seq) ==
    /\ maxCalls = budget
    /\ sequential = seq
    /\ imageItems = <<>>
    /\ imageSolutions = <<>>
    /\ selectedImage = NoUrl
    /\ selectedProblem = 0
    /\ db = FALSE
    /\ openQueue = <<>>
    /\ txQueue = <<>>
    /\ revoked = <<>>
    /\ consoleErrors = 0
    /\ uncaught = 0
    /\ nCalls = 0
    /\ completed = 0
    /\ clampDeps = <<>>

\* No database exists yet: the first open creates it.
InitNoDatabase ==
    /\ version = 0
    /\ objectStoreNames = {}
    /\ fileItemsStore = EmptyStore
    /\ solutionsStore = EmptyStore
    /\ appStateStore = EmptyStore
    /\ usedIds = {}

\* sources: createDefaultSources(), activeSourceId: "gemini-default"
\* (part_000 146-147), without a legacy configuration.
InitRegistry ==
    /\ sources = CreateDefaultSources(Null)
    /\ activeSourceId = GeminiDefault
    /\ uuids = 0
    /\ persisted = Null
    /\ legacy = Null
    /\ returned = NothingReturned

InitWith(budget, seq) ==
    /\ InitSession(budget, seq)
    /\ InitNoDatabase
    /\ InitRegistry

Init == InitWith(MaxCalls, FALSE)

\* ------------------------------------------------------ DatabaseManager
\* A persistedItem that leaves the status behind.
ToPersistedWithoutStatus(item) ==
    [id |-> item.id,
     fileBlob |-> item.file,
     mimeType |-> item.mimeType,
     source |-> item.source,
     status |-> "pending",
     fileName |-> item.file.name,
     lastModified |-> item.file.lastModified]

\* saveFileItem's persistedItem: the url is not stored.
ToPersisted(item) ==
    [id |-> item.id,
     fileBlob |-> item.file,
     mimeType |-> item.mimeType,
     source |-> item.source,
     status |-> item.status,
     fileName |-> item.file.name,
     lastModified |-> item.file.lastModified]

\* store.put(value) under key, store.delete(key)
StorePut(store, key, value) ==
    [k \in (DOMAIN store) \cup {key} |-> IF k = key THEN value ELSE store[k]]
StoreDelete(store, key) == [k \in (DOMAIN store) \ {key} |-> store[k]]

\* An operation of DatabaseManager in flight.
Op(kind, arg) == [kind |-> kind, arg |-> arg]

OpStore(op) ==
    CASE op.kind \in {"saveFileItem", "deleteFileItem", "loadAllFileItems"}
             -> "fileItems"
      [] op.kind \in {"saveSolution", "deleteSolution", "loadAllSolutions"}
             -> "solutions"
      [] op.kind \in {"saveAppState", "loadAppState"} -> "appState"
      [] OTHER -> "all"

\* A "readonly" transaction.
IsRead(op) ==
    op.kind \in {"loadAllFileItems", "loadAllSolutions", "loadAppState"}

OpKey(op) ==
    CASE op.kind = "saveFileItem" -> op.arg.id
      [] op.kind = "deleteFileItem" -> op.arg
      [] op.kind = "saveSolution" -> op.arg.fileItemId
      [] op.kind = "deleteSolution" -> op.arg
      [] OTHER -> 0

\* Two transactions the host must run in creation order: overlapping scope,
\* not both readonly, and not commuting (a getAll reads every key).
Conflicts(o1, o2) ==
    /\ ~(IsRead(o1) /\ IsRead(o2))
    /\ \/ OpStore(o1) = "all"
       \/ OpStore(o2) = "all"
       \/ /\ OpStore(o1) = OpStore(o2)
          /\ \/ OpKey(o1) = OpKey(o2)
             \/ IsRead(o1)
             \/ IsRead(o2)

TxnReady(i) == \A j \in 1..(i - 1) : ~Conflicts(txQueue[j], txQueue[i])

RemoveAt(q, i) == SubSeq(q, 1, i - 1) \o SubSeq(q, i + 1, Len(q))

\* The stores after op's requests succeeded.
FileItemsAfter(op, store) ==
    CASE op.kind = "saveFileItem" -> StorePut(store, op.arg.id, ToPersisted(op.arg))
      [] op.kind = "deleteFileItem" -> StoreDelete(store, op.arg)
      [] op.kind = "clearAll" -> EmptyStore
      [] OTHER -> store

\* clearAll with a transaction that leaves the solutions store out.
SolutionsAfterClearSkipped(op, store) ==
    CASE op.kind = "saveSolution" -> StorePut(store, op.arg.fileItemId, op.arg)
      [] op.kind = "deleteSolution" -> StoreDelete(store, op.arg)
      [] OTHER -> store

SolutionsAfter(op, store) ==
    CASE op.kind = "saveSolution" -> StorePut(store, op.arg.fileItemId, op.arg)
      [] op.kind = "deleteSolution" -> StoreDelete(store, op.arg)
      [] op.kind = "clearAll" -> EmptyStore
      [] OTHER -> store

AppStateAfter(op, store) ==
    CASE op.kind = "saveAppState" ->
             StorePut(store, "appState",
                      [key |-> "appState",
                       selectedImage |-> op.arg.selectedImage,
                       selectedProblem |-> op.arg.selectedProblem])
      [] op.kind = "clearAll" -> EmptyStore
      [] OTHER -> store

\* The keys of a store in ascending order, as getAll visits them.
RECURSIVE KeyOrder(_)
KeyOrder(keys) ==
    IF keys = {}
    THEN <<>>
    ELSE LET least == CHOOSE k \in keys : \A other \in keys : k <= other
         IN  <<least>> \o KeyOrder(keys \ {least})

\* new File([fileBlob], fileName, { type: mimeType, lastModified }) and the
\* FileItem built around it, with the object URL created for it.
FromPersisted(persistedItem, url) ==
    [id |-> persistedItem.id,
     file |-> [name |-> persistedItem.fileName,
               lastModified |-> persistedItem.lastModified,
               type |-> persistedItem.mimeType,
               bytes |-> persistedItem.fileBlob.bytes],
     mimeType |-> persistedItem.mimeType,
     url |-> url,
     source |-> persistedItem.source,
     status |-> persistedItem.status]

\* What loadFileItem(id) resolves with.
LoadFileItemResult(store, id, url) ==
    IF id \in DOMAIN store THEN FromPersisted(store[id], url) ELSE Null

\* What loadAllFileItems resolves with; the object URLs it creates follow
\* the lastUrl created so far.
LoadAllFileItemsResult(store, lastUrl) ==
    [i \in 1..Cardinality(DOMAIN store) |->
         FromPersisted(store[KeyOrder(DOMAIN store)[i]], lastUrl + i)]

\* What loadAllSolutions resolves with.
LoadAllSolutionsResult(store) ==
    [i \in 1..Cardinality(DOMAIN store) |-> store[KeyOrder(DOMAIN store)[i]]]

\* What loadAppState resolves with: the record without its key, or null.
LoadAppStateResult(store) ==
    IF "appState" \in DOMAIN store
    THEN [selectedImage |-> store["appState"].selectedImage,
          selectedProblem |-> store["appState"].selectedProblem]
    ELSE Null

\* request.onupgradeneeded runs when the database is older than DB_VERSION.
NamesAfterOpen(oldVersion, names) ==
    IF oldVersion >= DB_VERSION
    THEN names
    ELSE ((names \cup {"fileItems"})
              \cup (IF oldVersion < 2 THEN {"solutions"} ELSE {}))
             \cup {"appState"}

\* The records of the three stores after the open: a store is created
\* empty when missing, and the solutions store is deleted and created anew
\* when the database is older than version 2.
FileItemsAfterOpen(oldVersion, names, store) ==
    IF oldVersion < DB_VERSION /\ "fileItems" \notin names
    THEN EmptyStore
    ELSE store

\* The upgrade without the deleteObjectStore of line 67: the old records kept.
SolutionsAfterOpenKept(oldVersion, names, store) == store

SolutionsAfterOpen(oldVersion, names, store) ==
    IF oldVersion < DB_VERSION /\ oldVersion < 2
    THEN EmptyStore
    ELSE store

AppStateAfterOpen(oldVersion, names, store) ==
    IF oldVersion < DB_VERSION /\ "appState" \notin names
    THEN EmptyStore
    ELSE store

\* A method called now: ensureDB returns at once when db is set, else the
\* method waits for the open request its own initDB call issues.
Issue(ops) ==
    IF db
    THEN /\ txQueue' = txQueue \o ops
         /\ UNCHANGED openQueue
    ELSE /\ openQueue' = openQueue \o ops
         /\ UNCHANGED txQueue

\* What the caller does next once its open request succeeded: a method
\* creates its transaction; loadFromDB, which awaited initDB itself, calls
\* loadAllFileItems.
AfterOpen(op) ==
    IF op.kind = "initDB" THEN Op("loadAllFileItems", <<>>) ELSE op

\* loadFromDB's next call once the promise of op resolved.
Continue(op) ==
    CASE op.kind = "loadAllFileItems" ->
             <<Op("loadAllSolutions",
                  [fileItems |->
                       LoadAllFileItemsResult(fileItemsStore, Len(revoked))])>>
      [] op.kind = "loadAllSolutions" ->
             <<Op("loadAppState",
                  [fileItems |-> op.arg.fileItems,
                   solutions |-> LoadAllSolutionsResult(solutionsStore)])>>
      [] OTHER -> <<>>

\* The object URLs created while op's result is built, none revoked yet.
CreatedUrls(op) ==
    IF op.kind = "loadAllFileItems"
    THEN [i \in 1..Cardinality(DOMAIN fileItemsStore) |-> 0]
    ELSE <<>>

\* loadFromDB installing each part as soon as it is read.
InstallLoadedEarly(op) ==
    CASE op.kind = "loadAllFileItems" ->
             /\ imageItems' =
                    LoadAllFileItemsResult(fileItemsStore, Len(revoked))
             /\ UNCHANGED <<imageSolutions, selectedImage, selectedProblem>>
      [] op.kind = "loadAllSolutions" ->
             /\ imageSolutions' = LoadAllSolutionsResult(solutionsStore)
             /\ UNCHANGED <<imageItems, selectedImage, selectedProblem>>
      [] op.kind = "loadAppState" ->
             /\ selectedImage' =
                    (IF LoadAppStateResult(appStateStore) = Null
                     THEN NoUrl
                     ELSE LoadAppStateResult(appStateStore).selectedImage)
             /\ selectedProblem' =
                    (IF LoadAppStateResult(appStateStore) = Null
                     THEN 0
                     ELSE LoadAppStateResult(appStateStore).selectedProblem)
             /\ UNCHANGED <<imageItems, imageSolutions>>
      [] OTHER -> UNCHANGED memVars

\* loadFromDB's set() once its three reads resolved (db.ts 631-636); the
\* reads before the last one install nothing.
InstallLoaded(op) ==
    IF op.kind = "loadAppState"
    THEN /\ imageItems' = op.arg.fileItems
         /\ imageSolutions' = op.arg.solutions
         /\ selectedImage' =
                (IF LoadAppStateResult(appStateStore) = Null
                 THEN NoUrl
                 ELSE LoadAppStateResult(appStateStore).selectedImage)
         /\ selectedProblem' =
                (IF LoadAppStateResult(appStateStore) = Null
                 THEN 0
                 ELSE LoadAppStateResult(appStateStore).selectedProblem)
    ELSE UNCHANGED memVars

\* The promise of op resolved: the code after `await dbManager.clearAll()`
\* in clearAllWithDB resets the snapshot, loadFromDB goes on; a mirror
\* write has no continuation.
Resolved(op) ==
    IF op.kind = "clearAll"
    THEN /\ imageItems' = <<>>
         /\ imageSolutions' = <<>>
         /\ selectedImage' = NoUrl
         /\ selectedProblem' = 0
    ELSE InstallLoaded(op)

\* A rejection nobody handles: the method call without its .catch.
RejectedUnhandled(op) ==
    /\ uncaught' = uncaught + 1
    /\ UNCHANGED consoleErrors
    /\ UNCHANGED memVars

\* A catch that empties the snapshot when it was clearAll that failed.
RejectedResetsSnapshot(op) ==
    /\ consoleErrors' = consoleErrors + 1
    /\ UNCHANGED uncaught
    /\ IF op.kind = "clearAll"
       THEN /\ imageItems' = <<>>
            /\ imageSolutions' = <<>>
            /\ selectedImage' = NoUrl
            /\ selectedProblem' = 0
       ELSE UNCHANGED memVars

\* The promise of op rejected: every caller attaches .catch(console.error)
\* or sits in try/catch, and leaves the snapshot alone.
Rejected(op) ==
    /\ consoleErrors' = consoleErrors + 1
    /\ UNCHANGED uncaught
    /\ UNCHANGED memVars

\* What is left of a queue when its i-th operation settled.
QueueAfterSettle(q, i) == RemoveAt(q, i)

\* request.onsuccess of the oldest pending indexedDB.open, after
\* onupgradeneeded when the database was older: this.db is set and the
\* caller goes on.
OpenSucceed ==
    /\ openQueue # <<>>
    /\ db' = TRUE
    /\ version' = (IF version < DB_VERSION THEN DB_VERSION ELSE version)
    /\ objectStoreNames' = NamesAfterOpen(version, objectStoreNames)
    /\ fileItemsStore' =
           FileItemsAfterOpen(version, objectStoreNames, fileItemsStore)
    /\ solutionsStore' =
           SolutionsAfterOpen(version, objectStoreNames, solutionsStore)
    /\ appStateStore' =
           AppStateAfterOpen(version, objectStoreNames, appStateStore)
    /\ txQueue' = Append(txQueue, AfterOpen(Head(openQueue)))
    /\ openQueue' = Tail(openQueue)
    /\ UNCHANGED <<memVars, revoked, usedIds, consoleErrors, uncaught,
                   nCalls, scenarioVars, completed, uiVars, registryVars>>

\* request.onerror of the oldest pending indexedDB.open: initDB rejects,
\* and so does the method that awaited it; an upgrade is rolled back.
OpenFail ==
    /\ openQueue # <<>>
    /\ Rejected(Head(openQueue))
    /\ openQueue' = QueueAfterSettle(openQueue, 1)
    /\ UNCHANGED <<db, storeVars, txQueue, revoked, usedIds, nCalls,
                   scenarioVars, schemaVars, completed, uiVars,
                   registryVars>>

\* const total = 3: the clear requests of clearAll
ClearTotal == 3

\* A request of a transaction succeeds.  clearAll's transaction has three
\* requests and resolves on the third success; every other transaction has
\* one request.
TxnSucceed ==
    \E i \in 1..Len(txQueue) :
        /\ TxnReady(i)
        /\ IF txQueue[i].kind = "clearAll" /\ completed + 1 < ClearTotal
           THEN /\ completed' = completed + 1
                /\ UNCHANGED <<memVars, storeVars, txQueue, revoked>>
           ELSE /\ completed' = 0
                /\ fileItemsStore' = FileItemsAfter(txQueue[i], fileItemsStore)
                /\ solutionsStore' = SolutionsAfter(txQueue[i], solutionsStore)
                /\ appStateStore' = AppStateAfter(txQueue[i], appStateStore)
                /\ Resolved(txQueue[i])
                /\ txQueue' = QueueAfterSettle(txQueue, i)
                                  \o Continue(txQueue[i])
                /\ revoked' = revoked \o CreatedUrls(txQueue[i])
        /\ UNCHANGED <<db, openQueue, usedIds, consoleErrors, uncaught,
                       nCalls, scenarioVars, schemaVars, uiVars,
                       registryVars>>

\* clearAll as three transactions of one clear each: a failure leaves the
\* clears before it applied.
TxnFailKeepsApplied ==
    \E i \in 1..Len(txQueue) :
        /\ TxnReady(i)
        /\ Rejected(txQueue[i])
        /\ txQueue' = QueueAfterSettle(txQueue, i)
        /\ completed' = 0
        /\ fileItemsStore' =
               (IF txQueue[i].kind = "clearAll" /\ completed >= 1
                THEN EmptyStore ELSE fileItemsStore)
        /\ solutionsStore' =
               (IF txQueue[i].kind = "clearAll" /\ completed >= 2
                THEN EmptyStore ELSE solutionsStore)
        /\ UNCHANGED <<db, appStateStore, openQueue, revoked, usedIds, nCalls,
                       scenarioVars, schemaVars, uiVars, registryVars>>

\* A request of the transaction fails: the promise is rejected and the
\* transaction aborts, nothing of it is stored.
TxnFail ==
    \E i \in 1..Len(txQueue) :
        /\ TxnReady(i)
        /\ Rejected(txQueue[i])
        /\ txQueue' = QueueAfterSettle(txQueue, i)
        /\ completed' = 0
        /\ UNCHANGED <<db, storeVars, openQueue, revoked, usedIds, nCalls,
                       scenarioVars, schemaVars, uiVars, registryVars>>

\* ----------------------------------------------------- useProblemsStore
\* No operation of DatabaseManager is in flight.
Settled == openQueue = <<>> /\ txQueue = <<>>

\* One more action invocation, within the scenario.
Invoke ==
    /\ nCalls < maxCalls
    /\ sequential => Settled
    /\ nCalls' = nCalls + 1
    /\ UNCHANGED scenarioVars

\* An action of useProblemsStore invoked: it touches neither the database
\* schema, nor a clearAll in progress, nor the components, nor the registry.
Call ==
    /\ Invoke
    /\ UNCHANGED <<schemaVars, completed, uiVars, registryVars>>

\* Sequences without repetition over S, of length 1..n.
DistinctSeqs(S, n) ==
    UNION {{s \in [1..k -> S] : \A i, j \in 1..k : i # j => s[i] # s[j]} :
           k \in 1..n}

\* Array.prototype.find by key: the first index whose element matches, or 0.
FindItem(items, id) ==
    IF \E i \in 1..Len(items) : items[i].id = id
    THEN CHOOSE i \in 1..Len(items) :
             /\ items[i].id = id
             /\ \A j \in 1..(i - 1) : items[j].id # id
    ELSE 0

FindSolution(sols, id) ==
    IF \E i \in 1..Len(sols) : sols[i].fileItemId = id
    THEN CHOOSE i \in 1..Len(sols) :
             /\ sols[i].fileItemId = id
             /\ \A j \in 1..(i - 1) : sols[j].fileItemId # id
    ELSE 0

\* set((state) => ({ imageItems: [...state.imageItems, ...newItems] }))
AddFileItemsSet(items, newItems) == items \o newItems

\* addFileItems(newItems): the callers give each new item a fresh id and a
\* fresh object URL.
AddFileItemsOf(ids) ==
    LET newItems == [i \in 1..Len(ids) |->
                         NewFileItem(ids[i], Len(revoked) + i)]
    IN  /\ Call
        /\ imageItems' = AddFileItemsSet(imageItems, newItems)
        /\ Issue([i \in 1..Len(ids) |-> Op("saveFileItem", newItems[i])])
        /\ revoked' = revoked \o [i \in 1..Len(ids) |-> 0]
        /\ usedIds' = usedIds \cup {ids[i] : i \in 1..Len(ids)}
        /\ UNCHANGED <<imageSolutions, selectedImage, selectedProblem, db,
                       storeVars, consoleErrors, uncaught>>

\* Batches of new ids, handed out in increasing order.
FreshBatches ==
    {[i \in 1..k |-> Cardinality(usedIds) + i] :
         k \in 1..(IF MaxItems - Cardinality(usedIds) < MaxBatch
                   THEN MaxItems - Cardinality(usedIds)
                   ELSE MaxBatch)}

AddFileItems == \E ids \in FreshBatches : AddFileItemsOf(ids)

\* addFileItems with the ids as the callers chose them: new and distinct,
\* in no particular order.
AddFileItemsAnyIds ==
    \E ids \in DistinctSeqs(ItemIds \ usedIds, MaxBatch) : AddFileItemsOf(ids)

\* imageItems.map(item => item.id === id ? { ...item, status } : item)
UpdateItemStatusSet(items, id, status) ==
    [i \in 1..Len(items) |->
         IF items[i].id = id
         THEN [items[i] EXCEPT !.status = status]
         ELSE items[i]]

\* The item updateItemStatus mirrors: found in the snapshot after its set.
UpdateItemStatusMirror(itemsAfter, id, status) ==
    IF FindItem(itemsAfter, id) = 0
    THEN <<>>
    ELSE <<Op("saveFileItem",
              [itemsAfter[FindItem(itemsAfter, id)] EXCEPT !.status = status])>>

UpdateItemStatus ==
    \E id \in usedIds, status \in Statuses :
        /\ Call
        /\ imageItems' = UpdateItemStatusSet(imageItems, id, status)
        /\ Issue(UpdateItemStatusMirror(imageItems', id, status))
        /\ UNCHANGED <<imageSolutions, selectedImage, selectedProblem, db,
                       storeVars, revoked, usedIds, consoleErrors, uncaught>>

\* imageItems.filter(item => item.id !== id)
RemoveImageItemSet(items, id) == SelectSeq(items, LAMBDA it : it.id # id)

\* removeImageItem(id): filters the items and deletes the stored record;
\* it touches neither the item's url nor imageSolutions.
RemoveImageItemOf(id) ==
    /\ Call
    /\ imageItems' = RemoveImageItemSet(imageItems, id)
    /\ Issue(<<Op("deleteFileItem", id)>>)
    /\ UNCHANGED <<imageSolutions, selectedImage, selectedProblem, db,
                   storeVars, revoked, usedIds, consoleErrors, uncaught>>

RemoveImageItem == \E id \in usedIds : RemoveImageItemOf(id)

\* updatedProblems = [...solution.problems];
\* updatedProblems[problemIndex] = { ...updatedProblems[problemIndex], answer, explanation }
UpdateProblemsArray(problems, problemIndex, newAnswer, newExplanation) ==
    ArraySet(ArraySpread(problems), problemIndex,
             SpreadWithAnswer(ArrayGet(ArraySpread(problems), problemIndex),
                              newAnswer, newExplanation))

UpdateProblemSet(sols, fileItemId, problemIndex, newAnswer, newExplanation) ==
    [i \in 1..Len(sols) |->
         IF sols[i].fileItemId = fileItemId
         THEN [sols[i] EXCEPT !.problems =
                   UpdateProblemsArray(@, problemIndex, newAnswer, newExplanation)]
         ELSE sols[i]]

UpdateProblemMirror(solsAfter, fileItemId) ==
    IF FindSolution(solsAfter, fileItemId) = 0
    THEN <<>>
    ELSE <<Op("saveSolution", solsAfter[FindSolution(solsAfter, fileItemId)])>>

UpdateProblemOf(fileItemId, problemIndex) ==
    /\ Call
    /\ imageSolutions' =
           UpdateProblemSet(imageSolutions, fileItemId, problemIndex, "a1", "e1")
    /\ Issue(UpdateProblemMirror(imageSolutions', fileItemId))
    /\ UNCHANGED <<imageItems, selectedImage, selectedProblem, db,
                   storeVars, revoked, usedIds, consoleErrors, uncaught>>

UpdateProblem ==
    \E fileItemId \in ItemIds, problemIndex \in ProblemIndexes :
        UpdateProblemOf(fileItemId, problemIndex)

\* clearAllItems: set({ imageItems: [] }), nothing else.
ClearAllItems ==
    /\ Call
    /\ imageItems' = <<>>
    /\ UNCHANGED <<imageSolutions, selectedImage, selectedProblem, db,
                   storeVars, openQueue, txQueue, revoked, usedIds,
                   consoleErrors, uncaught>>

\* A lost update: the list rebuilt from a snapshot captured before any other
\* addSolution ran.
AddSolutionSetStale(sols, newSolution) == <<newSolution>>

\* set((state) => ({ imageSolutions: [...state.imageSolutions, newSolution] }))
AddSolutionSet(sols, newSolution) == Append(sols, newSolution)

AddSolution ==
    \E id \in ItemIds, shape \in SolutionShapes :
        LET newSolution == NewSolution(id, shape[1], shape[2])
        IN  /\ Call
            /\ imageSolutions' = AddSolutionSet(imageSolutions, newSolution)
            /\ Issue(<<Op("saveSolution", newSolution)>>)
            /\ UNCHANGED <<imageItems, selectedImage, selectedProblem, db,
                           storeVars, revoked, usedIds, consoleErrors, uncaught>>

\* imageSolutions.filter(sol => !fileItemIdsToRemove.has(sol.fileItemId))
RemoveSolutionsSet(sols, idSet) ==
    SelectSeq(sols, LAMBDA sol : sol.fileItemId \notin idSet)

\* The Sets of ids given to removeSolutionsByFileItemIds, each as the
\* sequence its forEach visits.  The deletes of one call have different
\* keys and commute, so one insertion order per Set is enumerated.
IdSetArgs ==
    {ids \in DistinctSeqs(ItemIds, MaxItems) :
         \A i, j \in 1..Len(ids) : i < j => ids[i] < ids[j]} \cup {<<>>}

RemoveSolutionsByFileItemIds ==
    \E ids \in IdSetArgs :
        /\ Call
        /\ imageSolutions' =
               RemoveSolutionsSet(imageSolutions, {ids[i] : i \in 1..Len(ids)})
        /\ Issue([i \in 1..Len(ids) |-> Op("deleteSolution", ids[i])])
        /\ UNCHANGED <<imageItems, selectedImage, selectedProblem, db,
                       storeVars, revoked, usedIds, consoleErrors, uncaught>>

\* clearAllSolutions: set({ imageSolutions: [] }), nothing else.
ClearAllSolutions ==
    /\ Call
    /\ imageSolutions' = <<>>
    /\ UNCHANGED <<imageItems, selectedImage, selectedProblem, db,
                   storeVars, openQueue, txQueue, revoked, usedIds,
                   consoleErrors, uncaught>>

\* The AppState record the setters mirror.
AppStateOf(image, problem) ==
    [selectedImage |-> image, selectedProblem |-> problem]

SetSelectedImage ==
    \E image \in 0..Len(revoked) :
        /\ Call
        /\ selectedImage' = image
        /\ Issue(<<Op("saveAppState", AppStateOf(image, selectedProblem))>>)
        /\ UNCHANGED <<imageItems, imageSolutions, selectedProblem, db,
                       storeVars, revoked, usedIds, consoleErrors, uncaught>>

\* The body of setSelectedProblem(index): the set and the mirror write.
SetSelectedProblemSet(index) ==
    /\ selectedProblem' = index
    /\ Issue(<<Op("saveAppState", AppStateOf(selectedImage, index))>>)
    /\ UNCHANGED <<imageItems, imageSolutions, selectedImage, db,
                   storeVars, revoked, usedIds, consoleErrors, uncaught>>

SetSelectedProblemOf(index) ==
    /\ Call
    /\ SetSelectedProblemSet(index)

SetSelectedProblem ==
    \E index \in SelectedProblemArgs : SetSelectedProblemOf(index)

\* currentItems.forEach(item => URL.revokeObjectURL(item.url))
RevokeAll(counts, currentItems) ==
    [u \in 1..Len(counts) |->
         counts[u] + Cardinality({i \in 1..Len(currentItems) :
                                      currentItems[i].url = u})]

\* clearAllWithDB with the snapshot reset moved ahead of the store clear:
\* nothing is left to enumerate, and the snapshot is empty whether or not
\* the store clear succeeds.
ClearAllWithDBResetFirst ==
    /\ Call
    /\ imageItems' = <<>>
    /\ imageSolutions' = <<>>
    /\ selectedImage' = NoUrl
    /\ selectedProblem' = 0
    /\ revoked' = RevokeAll(revoked, <<>>)
    /\ Issue(<<Op("clearAll", <<>>)>>)
    /\ UNCHANGED <<db, storeVars, usedIds, consoleErrors, uncaught>>

\* clearAllWithDB up to its await: the urls of the items now in the
\* snapshot are revoked, then dbManager.clearAll() is called.  The snapshot
\* is reset by Resolved once clearAll's promise resolves.
ClearAllWithDB ==
    /\ Call
    /\ revoked' = RevokeAll(revoked, imageItems)
    /\ Issue(<<Op("clearAll", imageItems)>>)
    /\ UNCHANGED <<memVars, db, storeVars, usedIds, consoleErrors, uncaught>>

\* loadFromDB up to its first await: dbManager.initDB() issues an open
\* request whether or not this.db is set.  The reads follow one by one as
\* each promise resolves (AfterOpen, Continue), the set() after the last
\* (InstallLoaded); a rejection ends in the catch (Rejected).
LoadFromDB ==
    /\ Call
    /\ openQueue' = Append(openQueue, Op("initDB", <<>>))
    /\ UNCHANGED <<memVars, db, storeVars, txQueue, revoked, usedIds,
                   consoleErrors, uncaught>>

\* ------------------------------------------------------------ useAiStore
\* An operation of the registry invoked: it touches nothing of
\* useProblemsStore, the database or the components.
RegistryCall ==
    /\ Invoke
    /\ UNCHANGED <<problemVars, uiVars>>

\* The operation op, called with the id `given` (Undefined: none),
\* returns value.
Returns(op, given, value) ==
    returned' = [op |-> op, given |-> given, value |-> value]

\* An array as a returned value.
ArrayResult(list) == [array |-> list]

\* A document that carries the sources only.
PartializeSourcesOnly(list, active) == [sources |-> list]

\* partialize: what of the state goes into the persisted document.
Partialize(list, active) == [sources |-> list, activeSourceId |-> active]

\* The item the persist middleware writes under "ai-storage".
PersistedDocument(list, active) ==
    [state |-> Partialize(list, active), version |-> 1]

\* The persist middleware's set(): after the state is replaced the whole
\* partialized state is written to localStorage, synchronously. The
\* legacy item is not touched.
Saved ==
    /\ persisted' = PersistedDocument(sources', activeSourceId')
    /\ UNCHANGED legacy

\* The sources given to addSource (without id).
NewSources ==
    {[name |-> "S", provider |-> "openai", apiKey |-> key, enabled |-> on] :
         key \in {Null, Str("sk-new")}, on \in BOOLEAN}

\* { ...source, id }
WithId(source, id) ==
    [f \in (DOMAIN source) \cup {"id"} |-> IF f = "id" THEN id ELSE source[f]]

\* addSource: the new source goes last, under a fresh random id.
AddSource ==
    \E source \in NewSources :
        /\ RegistryCall
        /\ uuids' = uuids + 1
        /\ sources' = Append(sources, WithId(source, Uuid(uuids + 1)))
        /\ UNCHANGED activeSourceId
        /\ Returns("addSource", Undefined, Uuid(uuids + 1))
        /\ Saved

\* The ids given to the registry operations: those in the registry, and
\* one that may not be.
SourceIdArgs ==
    {sources[i].id : i \in 1..Len(sources)} \cup {GeminiDefault}

\* The updates given to updateSource.
SourceUpdates ==
    {[apiKey |-> Str("")], [apiKey |-> Str("sk")],
     [id |-> CustomId], [id |-> OpenAiDefault]}

\* { ...source, ...updates }
Merge(source, updates) ==
    [f \in (DOMAIN source) \cup (DOMAIN updates) |->
         IF f \in DOMAIN updates THEN updates[f] ELSE source[f]]

\* sources.map(source => source.id === id ? { ...source, ...updates } : source)
UpdateSourceSet(list, id, updates) ==
    [i \in 1..Len(list) |->
         IF list[i].id = id THEN Merge(list[i], updates) ELSE list[i]]

UpdateSource ==
    \E id \in SourceIdArgs, updates \in SourceUpdates :
        /\ RegistryCall
        /\ sources' = UpdateSourceSet(sources, id, updates)
        /\ UNCHANGED <<activeSourceId, uuids>>
        /\ Returns("updateSource", Undefined, Undefined)
        /\ Saved

\* state.sources.filter(source => source.id !== id)
RECURSIVE RemoveSourceFilter(_, _)
RemoveSourceFilter(list, id) ==
    IF list = <<>>
    THEN <<>>
    ELSE (IF Head(list).id # id THEN <<Head(list)>> ELSE <<>>)
             \o RemoveSourceFilter(Tail(list), id)

\* list.find(source => source.enabled)?.id: the id, or undefined.
RECURSIVE FirstEnabledId(_)
FirstEnabledId(list) ==
    IF list = <<>> THEN Undefined
    ELSE IF Head(list).enabled THEN Head(list).id
    ELSE FirstEnabledId(Tail(list))

\* a ?? b
Coalesce(a, b) == IF a = Undefined \/ a = Null THEN b ELSE a

\* The active id that takes the first remaining source, enabled or not.
NextActiveFirstOnly(nextSources, active, id) ==
    IF active = id
    THEN Coalesce(IF nextSources = <<>> THEN Undefined ELSE nextSources[1].id,
                  GeminiDefault)
    ELSE active

\* nextActive of removeSource
NextActive(nextSources, active, id) ==
    IF active = id
    THEN Coalesce(FirstEnabledId(nextSources),
                  Coalesce(IF nextSources = <<>>
                           THEN Undefined
                           ELSE nextSources[1].id,
                           GeminiDefault))
    ELSE active

RemoveSourceOf(id) ==
    /\ RegistryCall
    /\ sources' = RemoveSourceFilter(sources, id)
    /\ activeSourceId' =
           NextActive(RemoveSourceFilter(sources, id), activeSourceId, id)
    /\ UNCHANGED uuids
    /\ Returns("removeSource", Undefined, Undefined)
    /\ Saved

RemoveSource == \E id \in SourceIdArgs : RemoveSourceOf(id)

\* sources.map(source => source.id === id ? { ...source, enabled } : source)
ToggleSourceSet(list, id, enabled) ==
    [i \in 1..Len(list) |->
         IF list[i].id = id THEN [list[i] EXCEPT !.enabled = enabled]
         ELSE list[i]]

ToggleSource ==
    \E id \in SourceIdArgs, enabled \in BOOLEAN :
        /\ RegistryCall
        /\ sources' = ToggleSourceSet(sources, id, enabled)
        /\ UNCHANGED <<activeSourceId, uuids>>
        /\ Returns("toggleSource", Undefined, Undefined)
        /\ Saved

\* setActiveSource: only an id that exists becomes active.
SetActiveSource ==
    \E id \in SourceIdArgs :
        /\ RegistryCall
        /\ activeSourceId' =
               (IF \E i \in 1..Len(sources) : sources[i].id = id
                THEN id ELSE activeSourceId)
        /\ UNCHANGED <<sources, uuids>>
        /\ Returns("setActiveSource", Undefined, Undefined)
        /\ Saved

\* The state a construction starts from: createDefaultSources(), read from
\* the legacy item, and the fixed active id.
DefaultState(legacyApiKey) ==
    [sources |-> CreateDefaultSources(legacyApiKey),
     activeSourceId |-> GeminiDefault]

\* A hydration in which the constructed state wins over the document.
HydratedDefaultsFirst(current, document) ==
    IF document = Null THEN current ELSE Merge(document.state, current)

\* The persist middleware's hydration: the state of the stored document is
\* spread over the constructed state; without a document that state stays.
Hydrated(current, document) ==
    IF document = Null THEN current ELSE Merge(current, document.state)

\* The module is evaluated again (the page is loaded anew): the store is
\* created from the defaults and hydrated from localStorage. The
\* middleware may write the hydrated state back (it does in some of its
\* versions, whether or not a document was found).
CreateStore ==
    /\ RegistryCall
    /\ sources' = Hydrated(DefaultState(legacy), persisted).sources
    /\ activeSourceId' =
           Hydrated(DefaultState(legacy), persisted).activeSourceId
    /\ persisted' \in {persisted, PersistedDocument(sources', activeSourceId')}
    /\ Returns("create", Undefined, Undefined)
    /\ UNCHANGED <<uuids, legacy>>

\* A read of the registry: get() and nothing else. No set(), so nothing is
\* written to localStorage either.
RegistryRead ==
    /\ RegistryCall
    /\ UNCHANGED <<sources, activeSourceId, uuids, persisted, legacy>>

\* A value in a condition: null, undefined and "" are falsy.
Truthy(value) == value # Null /\ value # Undefined /\ value # Str("")

\* The filter that keeps every enabled source, with a credential or not.
RECURSIVE EnabledSourcesAnyKey(_)
EnabledSourcesAnyKey(list) ==
    IF list = <<>>
    THEN <<>>
    ELSE (IF Head(list).enabled THEN <<Head(list)>> ELSE <<>>)
             \o EnabledSourcesAnyKey(Tail(list))

\* sources.filter(source => source.enabled && source.apiKey)
RECURSIVE EnabledSources(_)
EnabledSources(list) ==
    IF list = <<>>
    THEN <<>>
    ELSE (IF Head(list).enabled /\ Truthy(Head(list).apiKey)
          THEN <<Head(list)>> ELSE <<>>)
             \o EnabledSources(Tail(list))

GetEnabledSources ==
    /\ RegistryRead
    /\ Returns("getEnabledSources", Undefined,
               ArrayResult(EnabledSources(sources)))

\* Math.random() returns one of the values n / RandomDenominator,
\* n in Randoms: a value of [0, 1).
RandomDenominator == 12
Randoms == 0..(RandomDenominator - 1)

\* An index that takes the square of the draw.
RandomIndexSquared(n, length) ==
    (n * n * length) \div (RandomDenominator * RandomDenominator)

\* Math.floor(Math.random() * length), for the draw n / RandomDenominator
RandomIndex(n, length) == (n * length) \div RandomDenominator

\* array[index] of a JavaScript array (0-based) held as a sequence
At(list, index) == list[index + 1]

\* The first source of the list, qualified or not.
ActiveSourceFirst(list, n) ==
    IF Len(list) > 0 THEN At(list, 0) ELSE Null

\* getActiveSource, for the draw n / RandomDenominator
ActiveSource(list, n) ==
    IF Len(EnabledSources(list)) > 0
    THEN At(EnabledSources(list), RandomIndex(n, Len(EnabledSources(list))))
    ELSE IF Len(list) > 0 THEN At(list, 0) ELSE Null

\* A getActiveSource that makes the source it chose the active one.
GetActiveSourceSticky(n) ==
    /\ RegistryCall
    /\ UNCHANGED <<sources, uuids, persisted, legacy>>
    /\ activeSourceId' =
           (IF ActiveSource(sources, n) = Null
            THEN activeSourceId ELSE ActiveSource(sources, n).id)
    /\ Returns("getActiveSource", Undefined, ActiveSource(sources, n))

GetActiveSourceOf(n) ==
    /\ RegistryRead
    /\ Returns("getActiveSource", Undefined, ActiveSource(sources, n))

\* Math.random() is called only when a source qualifies.
GetActiveSource ==
    \E n \in (IF Len(EnabledSources(sources)) > 0 THEN Randoms ELSE {0}) :
        GetActiveSourceOf(n)

\* list.find(source => source.id === id): the first match, or undefined.
RECURSIVE FindSource(_, _)
FindSource(list, id) ==
    IF list = <<>> THEN Undefined
    ELSE IF Head(list).id = id THEN Head(list)
    ELSE FindSource(Tail(list), id)

\* The ids asked for: those in the registry, the fixed ones and one that
\* no source has.
LookupIds ==
    {sources[i].id : i \in 1..Len(sources)}
        \cup {GeminiDefault, OpenAiDefault, [fixed |-> "absent"]}

GetSourceById ==
    \E id \in LookupIds :
        /\ RegistryRead
        /\ Returns("getSourceById", id, FindSource(sources, id))

\* A client adapter: its class and the credential it was constructed with.
Client(family, source) == [family |-> family, apiKey |-> source.apiKey]

\* An adapter built whatever the credential is.
CreateClientUnchecked(source) ==
    IF source.provider = "gemini" THEN Client("GeminiAi", source)
    ELSE IF source.provider = "openai" THEN Client("OpenAiClient", source)
    ELSE Null

\* createClientForSource
CreateClientForSource(source) ==
    IF ~Truthy(source.apiKey) THEN Null
    ELSE IF source.provider = "gemini" THEN Client("GeminiAi", source)
    ELSE IF source.provider = "openai" THEN Client("OpenAiClient", source)
    ELSE Null

\* A lookup that goes on to the random choice when the source asked for
\* gives no client.
ClientForSourceFallingBack(list, id, n) ==
    IF /\ Truthy(id)
       /\ FindSource(list, id) # Undefined
       /\ CreateClientForSource(FindSource(list, id)) # Null
    THEN CreateClientForSource(FindSource(list, id))
    ELSE LET enabled == EnabledSources(list)
             fallbackSources == IF Len(enabled) > 0 THEN enabled ELSE list
         IN  IF Len(fallbackSources) = 0
             THEN Null
             ELSE CreateClientForSource(
                      At(fallbackSources,
                         RandomIndex(n, Len(fallbackSources))))

\* A choice without an id that draws from the full list whether or not a
\* source is enabled and credentialed.
ClientForSourceUnfiltered(list, id, n) ==
    IF Truthy(id)
    THEN IF FindSource(list, id) # Undefined
         THEN CreateClientForSource(FindSource(list, id))
         ELSE Null
    ELSE IF Len(list) = 0
         THEN Null
         ELSE CreateClientForSource(At(list, RandomIndex(n, Len(list))))

\* getClientForSource(id), for the draw n / RandomDenominator; id is
\* Undefined when no id is given.
ClientForSource(list, id, n) ==
    IF Truthy(id)
    THEN IF FindSource(list, id) # Undefined
         THEN CreateClientForSource(FindSource(list, id))
         ELSE Null
    ELSE LET enabled == EnabledSources(list)
             fallbackSources == IF Len(enabled) > 0 THEN enabled ELSE list
         IN  IF Len(fallbackSources) = 0
             THEN Null
             ELSE CreateClientForSource(
                      At(fallbackSources,
                         RandomIndex(n, Len(fallbackSources))))

GetClientForSourceOf(id, n) ==
    /\ RegistryRead
    /\ Returns("getClientForSource", id, ClientForSource(sources, id, n))

\* Math.random() is called only when no id is given and there is a source.
GetClientForSource ==
    \E id \in LookupIds \cup {Undefined} :
        \E n \in (IF ~Truthy(id) /\ Len(sources) > 0 THEN Randoms ELSE {0}) :
            GetClientForSourceOf(id, n)

\* ------------------------------------- SolutionsArea, SolutionViewer
Min(a, b) == IF a < b THEN a ELSE b
Max(a, b) == IF a > b THEN a ELSE b

\* new Map(imageSolutions.map(s => [s.fileItemId, s])).get(id): of several
\* entries with one key the last one stays.
ByFileItemId(sols, id) ==
    sols[CHOOSE i \in 1..Len(sols) :
             /\ sols[i].fileItemId = id
             /\ \A j \in (i + 1)..Len(sols) : sols[j].fileItemId # id]

\* orderedSolutions: the items that have a solution entry, in item order,
\* each with its entry.
OrderedSolutions(items, sols) ==
    LET has == SelectSeq(items,
                         LAMBDA it : \E i \in 1..Len(sols) :
                                         sols[i].fileItemId = it.id)
    IN  [k \in 1..Len(has) |->
             [item |-> has[k], solutions |-> ByFileItemId(sols, has[k].id)]]

\* currentImageIdx, counted from 0 as in the code; -1 without solutions.
CurrentImageIdx(ordered, image) ==
    IF Len(ordered) = 0 THEN -1
    ELSE IF image = NoUrl THEN 0
    ELSE IF \E k \in 1..Len(ordered) : ordered[k].item.url = image
    THEN (CHOOSE k \in 1..Len(ordered) :
              /\ ordered[k].item.url = image
              /\ \A j \in 1..(k - 1) : ordered[j].item.url # image) - 1
    ELSE 0

\* problems.length of the current bundle (currentBundle?.solutions.problems ?? []).
ProblemsLength(ordered, image) ==
    IF CurrentImageIdx(ordered, image) >= 0
    THEN ordered[CurrentImageIdx(ordered, image) + 1].solutions.problems.length
    ELSE 0

\* The dependencies of the clamp effect as the snapshot now gives them.
ClampDepsNow ==
    <<CurrentImageIdx(OrderedSolutions(imageItems, imageSolutions), selectedImage),
      ProblemsLength(OrderedSolutions(imageItems, imageSolutions), selectedImage)>>

\* The index the clamp effect stores: 0 without problems, else
\* Math.min(selectedProblem, problems.length - 1).
Clamped(index, length) ==
    IF length = 0 THEN 0 ELSE Min(index, length - 1)

\* The clamp effect of SolutionsArea: it runs after the first render and
\* after a render in which currentImageIdx or problems.length changed, and
\* calls setSelectedProblem when the clamped index differs.
ClampEffect ==
    /\ clampDeps # ClampDepsNow
    /\ clampDeps' = ClampDepsNow
    /\ IF Clamped(selectedProblem, ClampDepsNow[2]) # selectedProblem
       THEN SetSelectedProblemSet(Clamped(selectedProblem, ClampDepsNow[2]))
       ELSE UNCHANGED <<memVars, db, storeVars, openQueue, txQueue, revoked,
                        usedIds, consoleErrors, uncaught>>
    /\ UNCHANGED <<nCalls, scenarioVars, schemaVars, completed, registryVars>>

\* goNextProblem and goPrevProblem, offered by SolutionViewer, which is
\* rendered when the current bundle has problems.
GoNextProblem ==
    /\ ClampDepsNow[2] > 0
    /\ SetSelectedProblemOf(Min(selectedProblem + 1,
                                Max(0, ClampDepsNow[2] - 1)))

GoPrevProblem ==
    /\ ClampDepsNow[2] > 0
    /\ SetSelectedProblemOf(Max(selectedProblem - 1, 0))

\* An index clamped from above only.
SafeIndexUpperOnly(index, problemCount) ==
    Min(index, Max(0, problemCount - 1))

\* SolutionViewer's safeIndex:
\* Math.min(Math.max(0, selectedProblem), Math.max(0, problemCount - 1))
SafeIndex(index, problemCount) ==
    Min(Max(0, index), Max(0, problemCount - 1))

\* ------------------------------------------------------- specifications
\* Every action of useProblemsStore on a session that starts with no
\* database, at any time (loadFromDB is in SpecStored).
Next ==
    \/ AddFileItems
    \/ UpdateItemStatus
    \/ RemoveImageItem
    \/ UpdateProblem
    \/ ClearAllItems
    \/ AddSolution
    \/ RemoveSolutionsByFileItemIds
    \/ ClearAllSolutions
    \/ SetSelectedImage
    \/ SetSelectedProblem
    \/ ClearAllWithDB
    \/ OpenSucceed
    \/ OpenFail
    \/ TxnSucceed
    \/ TxnFail

Spec == Init /\ [][Next]_vars

\* Every action, none invoked while an earlier one's operations are in
\* flight.
InitSeq == InitWith(MaxFocusCalls, TRUE)

SpecSeq == InitSeq /\ [][Next]_vars

InitFocus == InitWith(MaxFocusCalls, FALSE)

\* addSolution alone.
NextSolutions ==
    \/ AddSolution
    \/ OpenSucceed
    \/ OpenFail
    \/ TxnSucceed
    \/ TxnFail

SpecSolutions == InitFocus /\ [][NextSolutions]_vars

\* Items and their status.
NextStatus ==
    \/ AddFileItems
    \/ UpdateItemStatus
    \/ OpenSucceed
    \/ OpenFail
    \/ TxnSucceed
    \/ TxnFail

SpecStatus == InitFocus /\ [][NextStatus]_vars

\* Items, solutions and the bulk clear.
NextClear ==
    \/ AddFileItems
    \/ AddSolution
    \/ ClearAllWithDB
    \/ OpenSucceed
    \/ OpenFail
    \/ TxnSucceed
    \/ TxnFail

SpecClear == InitFocus /\ [][NextClear]_vars

\* The mirror writes of one item: saved, saved again, deleted.
NextMirror ==
    \/ AddFileItems
    \/ UpdateItemStatus
    \/ RemoveImageItem
    \/ OpenSucceed
    \/ OpenFail
    \/ TxnSucceed
    \/ TxnFail

SpecMirror == InitFocus /\ [][NextMirror]_vars

\* Batches added, then read back, one action at a time.
NextReload ==
    \/ AddFileItemsAnyIds
    \/ LoadFromDB
    \/ OpenSucceed
    \/ OpenFail
    \/ TxnSucceed
    \/ TxnFail

SpecReload == InitSeq /\ [][NextReload]_vars

\* Items arriving while a bulk clear or a load is under way.
NextArrivals ==
    \/ AddFileItems
    \/ ClearAllWithDB
    \/ LoadFromDB
    \/ OpenSucceed
    \/ OpenFail
    \/ TxnSucceed
    \/ TxnFail

SpecArrivals == InitFocus /\ [][NextArrivals]_vars

\* The records an earlier session left in a store.
StoredItems(ids) ==
    [k \in ids |-> ToPersisted([NewFileItem(k, OldUrl) EXCEPT !.status = "success"])]
StoredSolutions(keys) == [k \in keys |-> NewSolution(k, TRUE, 2)]
StoredAppStates ==
    {EmptyStore,
     [k \in {"appState"} |->
          [key |-> "appState", selectedImage |-> OldUrl, selectedProblem |-> 1]]}

\* A session constructed over the database an earlier session left: none
\* (version 0), one of the prior schema version with whatever stores it
\* had, or one of the current version.
InitStored ==
    /\ InitSession(MaxSessionCalls, FALSE)
    /\ InitRegistry
    /\ version \in 0..DB_VERSION
    /\ objectStoreNames \in SUBSET STORES
    /\ version = 0 => objectStoreNames = {}
    /\ version = DB_VERSION => objectStoreNames = STORES
    /\ fileItemsStore \in {StoredItems(ids) : ids \in SUBSET ItemIds}
    /\ solutionsStore \in {StoredSolutions(keys) : keys \in SUBSET ItemIds}
    /\ appStateStore \in StoredAppStates
    /\ "fileItems" \notin objectStoreNames => fileItemsStore = EmptyStore
    /\ "solutions" \notin objectStoreNames => solutionsStore = EmptyStore
    /\ "appState" \notin objectStoreNames => appStateStore = EmptyStore
    /\ usedIds = DOMAIN fileItemsStore

NextStored ==
    \/ LoadFromDB
    \/ ClearAllWithDB
    \/ OpenSucceed
    \/ OpenFail
    \/ TxnSucceed
    \/ TxnFail

SpecStored == InitStored /\ [][NextStored]_vars

\* Solutions and the selected problem, one action at a time.
NextViewer ==
    \/ AddSolution
    \/ SetSelectedProblem
    \/ OpenSucceed
    \/ OpenFail
    \/ TxnSucceed
    \/ TxnFail

SpecViewer == InitSeq /\ [][NextViewer]_vars

\* The selected problem under SolutionsArea.
NextSelection ==
    \/ AddFileItems
    \/ AddSolution
    \/ SetSelectedProblem
    \/ GoNextProblem
    \/ GoPrevProblem
    \/ ClampEffect
    \/ OpenSucceed
    \/ OpenFail
    \/ TxnSucceed
    \/ TxnFail

SpecSelection == InitFocus /\ [][NextSelection]_vars

\* The selection setters.
NextPair ==
    \/ AddFileItems
    \/ SetSelectedImage
    \/ SetSelectedProblem
    \/ OpenSucceed
    \/ OpenFail
    \/ TxnSucceed
    \/ TxnFail

SpecPair == InitFocus /\ [][NextPair]_vars

\* The legacy apiKey found at construction (legacy?.apiKey ?? null).
LegacyApiKeys == {Null, Str("sk")}

\* The registry as constructed, with or without a legacy key.
InitSources ==
    /\ InitSession(MaxRegistryCalls, FALSE)
    /\ InitNoDatabase
    /\ legacy \in LegacyApiKeys
    /\ sources = CreateDefaultSources(legacy)
    /\ activeSourceId = GeminiDefault
    /\ uuids = 0
    /\ persisted = Null
    /\ returned = NothingReturned

NextRegistry ==
    \/ AddSource
    \/ UpdateSource
    \/ RemoveSource
    \/ ToggleSource
    \/ SetActiveSource

SpecRegistry == InitSources /\ [][NextRegistry]_vars

\* A session whose store was just created, the document written back by
\* the hydration or not.
InitPersist ==
    /\ InitSession(MaxRegistryCalls, FALSE)
    /\ InitNoDatabase
    /\ legacy \in LegacyApiKeys
    /\ sources = CreateDefaultSources(legacy)
    /\ activeSourceId = GeminiDefault
    /\ uuids = 0
    /\ persisted \in {Null, PersistedDocument(sources, activeSourceId)}
    /\ returned = NothingReturned

\* The registry changed, and the store created anew, in any order.
NextPersist ==
    \/ AddSource
    \/ UpdateSource
    \/ RemoveSource
    \/ ToggleSource
    \/ SetActiveSource
    \/ CreateStore

SpecPersist == InitPersist /\ [][NextPersist]_vars

\* The registry changed and read, in any order.
NextSelect ==
    \/ AddSource
    \/ UpdateSource
    \/ RemoveSource
    \/ ToggleSource
    \/ SetActiveSource
    \/ GetActiveSource
    \/ GetEnabledSources
    \/ GetSourceById
    \/ GetClientForSource

SpecSelect == InitSources /\ [][NextSelect]_vars

\* ---------------------------------------------------------------- claims
\* The fileItemIds of the solution sets in memory.
SolutionIds == {imageSolutions[i].fileItemId : i \in 1..Len(imageSolutions)}

\* Every DatabaseManager operation so far has settled, and none failed.
SettledOK == Settled /\ consoleErrors = 0 /\ uncaught = 0

\* C1: addSolution invoked back-to-back for distinct fileItemIds, before any
\* mirror write has resolved, loses none of them: every set added is in
\* imageSolutions (under SpecSolutions each invocation is an addSolution),
\* and once the writes have settled successfully, in whatever order, the
\* solutions store holds a record under the key of each set in memory and
\* under no other key; a key added once holds exactly the set in memory.
C1_BothSolutionsRetained ==
    /\ Len(imageSolutions) = nCalls
    /\ SettledOK =>
           /\ DOMAIN solutionsStore = SolutionIds
           /\ \A i \in 1..Len(imageSolutions) :
                  (\A j \in 1..Len(imageSolutions) :
                       j # i => imageSolutions[j].fileItemId
                                    # imageSolutions[i].fileItemId)
                  => solutionsStore[imageSolutions[i].fileItemId]
                         = imageSolutions[i]

\* Two sets with distinct keys were added while both writes were in flight,
\* and both writes have since succeeded.
C1_Witness ==
    /\ SettledOK
    /\ Len(imageSolutions) = 2
    /\ imageSolutions[1].fileItemId # imageSolutions[2].fileItemId
    /\ DOMAIN solutionsStore
           = {imageSolutions[1].fileItemId, imageSolutions[2].fileItemId}

\* The second write completed while the first was still in flight.
C1_SecondWriteFirst ==
    /\ Len(imageSolutions) = 2
    /\ Len(txQueue) = 1
    /\ txQueue[1].arg = imageSolutions[1]
    /\ DOMAIN solutionsStore = {imageSolutions[2].fileItemId}
    /\ imageSolutions[1].fileItemId # imageSolutions[2].fileItemId
    /\ consoleErrors = 0

\* C9: imageSolutions holds at most one SolutionSet per fileItemId.
C9_OneSolutionPerItem ==
    \A i, j \in 1..Len(imageSolutions) :
        i # j => imageSolutions[i].fileItemId # imageSolutions[j].fileItemId

\* C2: after the writes issued by addFileItems and updateItemStatus have
\* settled successfully, the persisted status of every item in the snapshot
\* is the status last set for it.
C2_PersistedStatusIsLast ==
    SettledOK =>
        \A i \in 1..Len(imageItems) :
            /\ imageItems[i].id \in DOMAIN fileItemsStore
            /\ fileItemsStore[imageItems[i].id].status = imageItems[i].status

\* The snapshot and the store agree.
ItemsAgree ==
    {<<imageItems[i].id, imageItems[i].status>> : i \in 1..Len(imageItems)}
        = {<<k, fileItemsStore[k].status>> : k \in DOMAIN fileItemsStore}
SolutionsAgree ==
    {imageSolutions[i] : i \in 1..Len(imageSolutions)}
        = {solutionsStore[k] : k \in DOMAIN solutionsStore}
AppStateAgree ==
    IF "appState" \in DOMAIN appStateStore
    THEN /\ appStateStore["appState"].selectedImage = selectedImage
         /\ appStateStore["appState"].selectedProblem = selectedProblem
    ELSE selectedImage = NoUrl /\ selectedProblem = 0

\* C3: after non-overlapping actions whose mirror operations all succeeded
\* and settled, the store agrees with the snapshot on items and statuses,
\* on solution sets and on the selection pair.
C3_StoreAgreesWithSnapshot ==
    SettledOK => ItemsAgree /\ SolutionsAgree /\ AppStateAgree

\* The operations in flight, oldest open request first.
InFlight == openQueue \o txQueue

\* C4: a failing mirror operation (a failed open or a failed request)
\* changes nothing of the snapshot, is caught (logged, never left
\* unhandled), undoes nothing already stored, and leaves every other
\* operation in flight where it was.
C4_MirrorFailureIsContained ==
    [][(consoleErrors' # consoleErrors \/ uncaught' # uncaught) =>
           /\ UNCHANGED memVars
           /\ UNCHANGED storeVars
           /\ uncaught' = 0
           /\ \E i \in 1..Len(InFlight) : InFlight' = RemoveAt(InFlight, i)]_vars

\* One item of a batch failed to be stored, the other was stored, and both
\* are in the snapshot.
C4_Witness ==
    /\ Settled
    /\ consoleErrors = 1
    /\ Len(imageItems) = 2
    /\ Cardinality(DOMAIN fileItemsStore) = 1

\* C5: removeImageItem(id) revokes the url of the item it removes exactly
\* once, and revokes nothing when no item has that id.
C5_RemoveRevokesOnce ==
    [][\A id \in ItemIds :
           RemoveImageItemOf(id) =>
               IF FindItem(imageItems, id) # 0
               THEN revoked' =
                        [revoked EXCEPT ![imageItems[FindItem(imageItems, id)].url]
                                            = @ + 1]
               ELSE revoked' = revoked]_vars

\* C6: no display handle is revoked more than once.
C6_NoDoubleRevoke == \A u \in 1..Len(revoked) : revoked[u] <= 1

\* The urls of a list of items have all been revoked.
AllRevoked(items, counts) ==
    \A i \in 1..Len(items) : counts[items[i].url] >= 1

C8_RemoveCascades ==
    [][\A id \in ItemIds :
           RemoveImageItemOf(id) =>
               \A i \in 1..Len(imageSolutions') :
                   imageSolutions'[i].fileItemId # id]_vars

\* C10: updateProblem with a problemIndex outside 0..length-1 leaves the
\* problems of the target SolutionSet as they were; with an index inside,
\* the length is kept and only that entry's answer and explanation change.
C10_UpdateProblemValidatesIndex ==
    [][\A id \in ItemIds, k \in ProblemIndexes :
           UpdateProblemOf(id, k) =>
               \A i \in 1..Len(imageSolutions) :
                   imageSolutions[i].fileItemId = id =>
                       IF k < 0 \/ k >= imageSolutions[i].problems.length
                       THEN imageSolutions'[i].problems
                                = imageSolutions[i].problems
                       ELSE /\ imageSolutions'[i].problems.length
                                   = imageSolutions[i].problems.length
                            /\ \A j \in 0..(imageSolutions[i].problems.length - 1) :
                                   j # k => imageSolutions'[i].problems.props[j]
                                               = imageSolutions[i].problems.props[j]]_vars

\* A step in which the promise of the oldest operation waiting for its open
\* request, or of the i-th transaction, was rejected.
FailedStep == consoleErrors' # consoleErrors \/ uncaught' # uncaught

\* The snapshot is the initial one.
SnapshotEmpty ==
    /\ imageItems = <<>>
    /\ imageSolutions = <<>>
    /\ selectedImage = NoUrl
    /\ selectedProblem = 0

\* C14: when the open or one of the three reads of loadFromDB fails, the
\* failure is caught (logged, nothing unhandled) and nothing that was read
\* is installed: the snapshot stays as it was, which is the empty initial
\* snapshot when loadFromDB was the session's only action.  The snapshot
\* changes only when the last read of a loadFromDB resolved, to all three
\* parts at once, or when a clearAll resolved.
C14_LoadFailureInstallsNothing ==
    [][/\ FailedStep
          => /\ UNCHANGED memVars
             /\ uncaught' = 0
             /\ nCalls = 1 => SnapshotEmpty'
       /\ memVars' # memVars
          => /\ ~FailedStep
             /\ \E i \in 1..Len(txQueue) :
                    /\ txQueue' = RemoveAt(txQueue, i)
                    /\ \/ /\ txQueue[i].kind = "clearAll"
                          /\ SnapshotEmpty'
                       \/ /\ txQueue[i].kind = "loadAppState"
                          /\ imageItems' = txQueue[i].arg.fileItems
                          /\ imageSolutions' = txQueue[i].arg.solutions]_vars

\* loadFromDB was the only action; the items were read (their object URLs
\* exist), a later read failed, and the snapshot is empty.
C14_Witness ==
    /\ nCalls = 1
    /\ Settled
    /\ consoleErrors = 1
    /\ Len(revoked) > 0
    /\ fileItemsStore # EmptyStore
    /\ SnapshotEmpty

\* C15: at most one open request is ever pending, and none is issued once
\* the connection is held.
C15_SingleConnection ==
    /\ Len(openQueue) <= 1
    /\ db => openQueue = <<>>

\* A step in which clearAll's promise resolved.
ClearAllResolved ==
    /\ txQueue # <<>>
    /\ txQueue[1].kind = "clearAll"
    /\ txQueue' = Tail(txQueue)
    /\ ~FailedStep

\* C16: when clearAll resolves, its three clear requests have succeeded
\* (the resolving step is the third success), and reading all items, all
\* solutions and the AppState returns an empty sequence, an empty sequence
\* and null.
C16_ClearAllEmptiesEveryStore ==
    [][ClearAllResolved =>
           /\ completed = ClearTotal - 1
           /\ LoadAllFileItemsResult(fileItemsStore', Len(revoked')) = <<>>
           /\ LoadAllSolutionsResult(solutionsStore') = <<>>
           /\ LoadAppStateResult(appStateStore') = Null]_vars

\* A database that held items, solutions and an AppState record has been
\* cleared.
C16_Witness ==
    /\ SettledOK
    /\ usedIds # {}
    /\ nCalls = 1
    /\ db
    /\ fileItemsStore = EmptyStore
    /\ solutionsStore = EmptyStore
    /\ appStateStore = EmptyStore

\* A step in which clearAll's promise was rejected.
ClearAllRejected ==
    /\ txQueue # <<>>
    /\ txQueue[1].kind = "clearAll"
    /\ txQueue' = Tail(txQueue)
    /\ FailedStep

Opened ==
    /\ openQueue # <<>>
    /\ openQueue' = Tail(openQueue)
    /\ ~FailedStep

\* C18: an open at DB_VERSION (2)
\*  - of a database at version 1 empties the solutions collection and
\*    leaves every record of fileItems and appState as it was;
\*  - of no database (version 0) creates the three collections empty;
\*  - of a database at version 2 changes nothing;
\* and the database then has the three collections at version 2.
C18_UpgradeResetsOnlySolutions ==
    [][Opened =>
           /\ version' = DB_VERSION
           /\ objectStoreNames' = STORES
           /\ version = 1 => /\ solutionsStore' = EmptyStore
                             /\ fileItemsStore' = fileItemsStore
                             /\ appStateStore' = appStateStore
           /\ version = 0 => /\ fileItemsStore' = EmptyStore
                             /\ solutionsStore' = EmptyStore
                             /\ appStateStore' = EmptyStore
           /\ version = DB_VERSION => /\ UNCHANGED storeVars
                                      /\ UNCHANGED schemaVars]_vars

\* An open request is pending on a database of version 1 that holds
\* solutions, items and an AppState record.
C18_Witness ==
    /\ version = 1
    /\ openQueue # <<>>
    /\ solutionsStore # EmptyStore
    /\ fileItemsStore # EmptyStore
    /\ appStateStore # EmptyStore

\* A step in which the put of the i-th transaction succeeded.
PutSucceeded(i, kind) ==
    /\ txQueue[i].kind = kind
    /\ TxnReady(i)
    /\ txQueue' = RemoveAt(txQueue, i)
    /\ ~FailedStep

\* C19: a put that succeeded is read back as stored, from a store that
\* holds one record per key:
\*  - saveFileItem: loadFileItem and loadAllFileItems return the id, mime
\*    type, source, status and file content saved;
\*  - saveSolution: loadAllSolutions returns the Solution saved;
\*  - saveAppState: loadAppState returns the pair saved;
\*  - the store gains a key only when the key was new.
C19_PutThenReadReturnsStored ==
    [][\A i \in 1..Len(txQueue) :
           /\ PutSucceeded(i, "saveFileItem") =>
                  LET saved == txQueue[i].arg
                      one == LoadFileItemResult(fileItemsStore', saved.id, 1)
                      all == LoadAllFileItemsResult(fileItemsStore', 0)
                      Same(read) ==
                          /\ read.id = saved.id
                          /\ read.mimeType = saved.mimeType
                          /\ read.source = saved.source
                          /\ read.status = saved.status
                          /\ read.file.bytes = saved.file.bytes
                          /\ read.file.name = saved.file.name
                  IN  /\ one # Null
                      /\ Same(one)
                      /\ Cardinality({k \in 1..Len(all) :
                                          all[k].id = saved.id}) = 1
                      /\ \A k \in 1..Len(all) :
                             all[k].id = saved.id => Same(all[k])
                      /\ DOMAIN fileItemsStore'
                             = DOMAIN fileItemsStore \cup {saved.id}
           /\ PutSucceeded(i, "saveSolution") =>
                  LET saved == txQueue[i].arg
                      all == LoadAllSolutionsResult(solutionsStore')
                  IN  /\ Cardinality({k \in 1..Len(all) :
                                          all[k].fileItemId = saved.fileItemId})
                             = 1
                      /\ \A k \in 1..Len(all) :
                             all[k].fileItemId = saved.fileItemId
                                 => all[k] = saved
                      /\ DOMAIN solutionsStore'
                             = DOMAIN solutionsStore \cup {saved.fileItemId}
           /\ PutSucceeded(i, "saveAppState") =>
                  /\ LoadAppStateResult(appStateStore') = txQueue[i].arg
                  /\ DOMAIN appStateStore' = {"appState"}]_vars

\* An item was saved, saved again under the same key with another status,
\* and both puts succeeded.
C19_Witness ==
    /\ SettledOK
    /\ \E k \in DOMAIN fileItemsStore : fileItemsStore[k].status = "failed"

\* C11: for every SolutionSet in the snapshot, with n problems, and the
\* stored selectedProblem, whatever it is, safeIndex is in 0..n-1 when
\* n > 0 and is 0 when n = 0.
C11_SafeIndexInRange ==
    \A i \in 1..Len(imageSolutions) :
        LET n == imageSolutions[i].problems.length
        IN  IF n > 0
            THEN SafeIndex(selectedProblem, n) \in 0..(n - 1)
            ELSE SafeIndex(selectedProblem, n) = 0

\* A set with two problems, one without any, and a negative stored index.
C11_Witness ==
    /\ selectedProblem < 0
    /\ \E i \in 1..Len(imageSolutions) : imageSolutions[i].problems.length = 2
    /\ \E i \in 1..Len(imageSolutions) : imageSolutions[i].problems.length = 0

\* C12: once the clamp effect has run for the snapshot as it is, the stored
\* selectedProblem is in 0..n-1 for the n problems of the selected item's
\* SolutionSet, and is 0 when that set is empty or absent.
C12_StoredIndexInRange ==
    clampDeps = ClampDepsNow =>
        IF ClampDepsNow[2] > 0
        THEN selectedProblem \in 0..(ClampDepsNow[2] - 1)
        ELSE selectedProblem = 0

C20_RemoveSourceReassignsActive ==
    [][\A id \in SourceIdArgs :
           RemoveSourceOf(id) =>
               LET rest == SelectSeq(sources, LAMBDA src : src.id # id)
                   on == {k \in 1..Len(rest) : rest[k].enabled}
               IN  /\ sources' = rest
                   /\ activeSourceId # id => activeSourceId' = activeSourceId
                   /\ (activeSourceId = id /\ on # {}) =>
                          \E k \in on :
                              /\ activeSourceId' = rest[k].id
                              /\ \A j \in on : k <= j
                   /\ (activeSourceId = id /\ on = {} /\ rest # <<>>) =>
                          activeSourceId' = rest[1].id
                   /\ (activeSourceId = id /\ rest = <<>>) =>
                          activeSourceId' = GeminiDefault]_vars

\* The active Gemini source was removed: the disabled OpenAI source is now
\* first, and the active id is that of the enabled source after it.
C20_Witness ==
    /\ Len(sources) = 2
    /\ sources[1].id = OpenAiDefault
    /\ ~sources[1].enabled
    /\ sources[2].enabled
    /\ activeSourceId = sources[2].id
    /\ nCalls = 2

\* C21: whenever the registry holds at least one source, the active id is
\* the id of a source in the registry.
C21_ActiveIdExists ==
    Len(sources) > 0 =>
        \E i \in 1..Len(sources) : sources[i].id = activeSourceId

\* C22: no two sources in the registry have the same id.
C22_IdsUnique ==
    \A i, j \in 1..Len(sources) :
        sources[i].id = sources[j].id => i = j

\* C23: getEnabledSources returns exactly the sources that are enabled and
\* have a non-empty credential, in registry order.
C23_EnabledSourcesAreEnabledWithKey ==
    returned.op = "getEnabledSources" =>
        returned.value.array =
            SelectSeq(sources,
                      LAMBDA src : /\ src.enabled
                                   /\ src.apiKey # Null
                                   /\ src.apiKey # Str(""))

\* getEnabledSources returned one source and left out, before it, an
\* enabled source with an empty credential and a disabled source.
C23_Witness ==
    /\ returned.op = "getEnabledSources"
    /\ Len(returned.value.array) = 1
    /\ Len(sources) = 3
    /\ returned.value.array[1] = sources[3]
    /\ sources[1].enabled /\ sources[1].apiKey = Str("")
    /\ ~sources[2].enabled

\* The positions of the sources that are enabled and have a credential.
Qualified ==
    {i \in 1..Len(sources) :
         /\ sources[i].enabled
         /\ sources[i].apiKey # Null
         /\ sources[i].apiKey # Str("")}

\* C24: when a source is enabled and credentialed, getActiveSource returns
\* such a source and each of them can be returned; when none is, it returns
\* a source of the full list; it returns null exactly when the registry is
\* empty.
C24_ActiveSourceQualifiedOrFallback ==
    /\ returned.op = "getActiveSource" =>
           /\ Qualified # {} =>
                  \E i \in Qualified : returned.value = sources[i]
           /\ (Qualified = {} /\ Len(sources) > 0) =>
                  \E i \in 1..Len(sources) : returned.value = sources[i]
           /\ returned.value = Null <=> Len(sources) = 0
    /\ nCalls < maxCalls =>
           \A i \in Qualified :
               ENABLED (GetActiveSource /\ returned'.value = sources[i])

\* Two sources qualify, the first source of the registry does not, and
\* getActiveSource returned the second of the two.
C24_Witness ==
    /\ returned.op = "getActiveSource"
    /\ Cardinality(Qualified) = 2
    /\ 1 \notin Qualified
    /\ \E i, j \in Qualified : i < j /\ returned.value = sources[j]

\* The index i with i <= r * k < i + 1, for the draw r = n / RandomDenominator.
FloorOfDraw(n, k) ==
    CHOOSE i \in 0..(k - 1) :
        /\ i * RandomDenominator <= n * k
        /\ n * k < (i + 1) * RandomDenominator

\* The source at 0-based position i among the qualified ones.
QualifiedAt(i) ==
    sources[CHOOSE q \in Qualified :
                Cardinality({p \in Qualified : p < q}) = i]

\* The adapter the claim expects for a source with a credential.
AdapterOf(source) ==
    [family |-> IF source.provider = "gemini" THEN "GeminiAi" ELSE "OpenAiClient",
     apiKey |-> source.apiKey]

\* The draws for which Math.floor(Math.random() * k) is i.
DrawsOf(i, k) == {n \in Randoms : RandomIndex(n, k) = i}

\* C25: with k enabled-and-credentialed sources and no id given, the draw
\* r selects the source at index floor(r * k) of them, an index of
\* [0, k-1], in getActiveSource and in getClientForSource; the draws that
\* select index i are those of [i/k, (i+1)/k), a range of width 1/k for
\* every i (one k-th of the draws, where k divides their number).
C25_UniformChoice ==
    /\ [](Qualified # {} =>
             LET k == Cardinality(Qualified)
             IN  /\ \A n \in Randoms : RandomIndex(n, k) \in 0..(k - 1)
                 /\ \A i \in 0..(k - 1) :
                        /\ DrawsOf(i, k) # {}
                        /\ DrawsOf(i, k) =
                               {n \in Randoms :
                                    /\ i * RandomDenominator <= n * k
                                    /\ n * k < (i + 1) * RandomDenominator}
                        /\ RandomDenominator % k = 0 =>
                               k * Cardinality(DrawsOf(i, k)) = RandomDenominator)
    /\ [][Qualified # {} =>
              LET k == Cardinality(Qualified)
              IN  /\ returned'.op = "getActiveSource" =>
                         \A n \in Randoms :
                             \/ returned'.value = QualifiedAt(FloorOfDraw(n, k))
                             \/ ~GetActiveSourceOf(n)
                  /\ (returned'.op = "getClientForSource"
                         /\ returned'.given = Undefined) =>
                         \A n \in Randoms :
                             \/ returned'.value =
                                    AdapterOf(QualifiedAt(FloorOfDraw(n, k)))
                             \/ ~GetClientForSourceOf(Undefined, n)]_vars

\* Three sources qualify, the active id is the first one's, and
\* getActiveSource returned the third.
C25_Witness ==
    /\ returned.op = "getActiveSource"
    /\ Cardinality(Qualified) = 3
    /\ returned.value = QualifiedAt(2)
    /\ activeSourceId = QualifiedAt(0).id

\* The positions of the sources that have a credential.
Credentialed ==
    {i \in 1..Len(sources) :
         sources[i].apiKey # Null /\ sources[i].apiKey # Str("")}

\* C26: getClientForSource(id) with an id given returns a client built
\* from a source with that id when there is one and it has a credential,
\* and null when no source has the id or that source has no credential;
\* it never builds the client from a source with another id.
C26_ExplicitIdResolvesThatSource ==
    (returned.op = "getClientForSource" /\ returned.given # Undefined) =>
        LET matches == {i \in 1..Len(sources) : sources[i].id = returned.given}
            first == CHOOSE i \in matches : \A j \in matches : i <= j
        IN  /\ matches = {} => returned.value = Null
            /\ (matches # {} /\ first \in Credentialed) =>
                   returned.value = AdapterOf(sources[first])
            /\ (matches # {} /\ first \notin Credentialed) =>
                   returned.value = Null

\* getClientForSource was asked for a source that has no credential while
\* another source is enabled and credentialed, and returned null.
C26_Witness ==
    /\ returned.op = "getClientForSource"
    /\ returned.given = OpenAiDefault
    /\ \E i \in 1..Len(sources) :
           sources[i].id = OpenAiDefault /\ i \notin Credentialed
    /\ Qualified # {}
    /\ returned.value = Null

\* C27: getClientForSource, with an id or without, returns null or an
\* adapter built from a source of the registry that has a credential, of
\* the family of that source's provider; with no credentialed source (or
\* no source) it returns null; no error is raised.
C27_ClientsOnlyForCredentialedSources ==
    /\ returned.op = "getClientForSource" =>
           /\ \/ returned.value = Null
              \/ \E i \in Credentialed :
                     /\ returned.value.apiKey = sources[i].apiKey
                     /\ returned.value.family =
                            (IF sources[i].provider = "gemini"
                             THEN "GeminiAi" ELSE "OpenAiClient")
           /\ Credentialed = {} => returned.value = Null
    /\ uncaught = 0

\* No source qualifies, and getClientForSource() without an id built an
\* OpenAI adapter from a credentialed source of the full list.
C27_Witness ==
    /\ returned.op = "getClientForSource"
    /\ returned.given = Undefined
    /\ Qualified = {}
    /\ returned.value # Null
    /\ returned.value.family = "OpenAiClient"

\* What getActiveSource can return, from the list of sources alone.
ActiveSourceResults ==
    IF Qualified # {} THEN {sources[i] : i \in Qualified}
    ELSE IF Len(sources) > 0 THEN {sources[1]}
    ELSE {Null}

\* What getClientForSource() can return, from the list of sources alone.
ClientResults ==
    IF Qualified # {} THEN {AdapterOf(sources[i]) : i \in Qualified}
    ELSE IF Len(sources) > 0
    THEN {IF i \in Credentialed THEN AdapterOf(sources[i]) ELSE Null :
              i \in 1..Len(sources)}
    ELSE {Null}

\* C30: getActiveSource, getEnabledSources, getSourceById and
\* getClientForSource leave sources and activeSourceId unchanged; what a
\* call returns is one of the results the current list of sources allows,
\* and each of those is possible whatever earlier calls returned.
C30_SelectionIsStateless ==
    /\ [][(\/ returned'.op = "getActiveSource" /\ GetActiveSource
           \/ returned'.op = "getEnabledSources" /\ GetEnabledSources
           \/ returned'.op = "getSourceById" /\ GetSourceById
           \/ returned'.op = "getClientForSource" /\ GetClientForSource)
              => /\ sources' = sources
                 /\ activeSourceId' = activeSourceId
                 /\ persisted' = persisted]_vars
    /\ [](/\ returned.op = "getActiveSource" =>
                 returned.value \in ActiveSourceResults
          /\ (returned.op = "getClientForSource"
                 /\ returned.given = Undefined) =>
                 returned.value \in ClientResults
          /\ nCalls < maxCalls =>
                 /\ \A v \in ActiveSourceResults :
                        ENABLED (GetActiveSource /\ returned'.value = v)
                 /\ \A v \in ClientResults :
                        ENABLED (/\ GetClientForSource
                                 /\ returned'.given = Undefined
                                 /\ returned'.value = v))

\* getActiveSource returned a source other than the active one, two
\* sources qualify, and another call can follow.
C30_Witness ==
    /\ returned.op = "getActiveSource"
    /\ Cardinality(Qualified) >= 2
    /\ returned.value # Null
    /\ returned.value.id # activeSourceId
    /\ nCalls < maxCalls

\* The operations that change the registry.
MutatingOps ==
    {"addSource", "updateSource", "removeSource", "toggleSource",
     "setActiveSource"}

\* C28: after every mutating registry operation the persisted document is
\* the whole pair {sources, activeSourceId} of the in-memory registry, and
\* a persisted document never differs from the in-memory pair.
C28_PersistedIsWholeRegistry ==
    /\ returned.op \in MutatingOps => persisted # Null
    /\ persisted # Null =>
           /\ DOMAIN persisted.state = {"sources", "activeSourceId"}
           /\ persisted.state.sources = sources
           /\ persisted.state.activeSourceId = activeSourceId

\* After a source was added, removeSource of the active source has just
\* changed both the list and the active id.
C28_Witness ==
    /\ returned.op = "removeSource"
    /\ activeSourceId # GeminiDefault
    /\ Len(sources) = 2
    /\ sources[2].id = Uuid(1)
    /\ persisted # Null

\* C29: a store created while a registry document exists takes sources and
\* active id from the document, whatever the legacy configuration holds;
\* created without a document it has the default sources, the first with
\* the legacy credential; no step changes the legacy item.
C29_LegacySeedsOnlyWithoutDocument ==
    /\ [][returned'.op = "create" =>
              /\ persisted # Null =>
                     /\ sources' = persisted.state.sources
                     /\ activeSourceId' = persisted.state.activeSourceId
              /\ persisted = Null =>
                     /\ Len(sources') = 2
                     /\ sources'[1].id = GeminiDefault
                     /\ sources'[1].apiKey = legacy
                     /\ sources'[2].id = OpenAiDefault
                     /\ sources'[2].apiKey = Null
                     /\ activeSourceId' = GeminiDefault]_vars
    /\ [][legacy' = legacy]_vars

\* The store was created anew: the legacy configuration has a credential
\* and the first source, taken from the document, has the empty one.
C29_Witness ==
    /\ returned.op = "create"
    /\ legacy = Str("sk")
    /\ Len(sources) > 0
    /\ sources[1].id = GeminiDefault
    /\ sources[1].apiKey = Str("")

\* A step in which the clearAll awaited by a clearAllWithDB was rejected,
\* through its open request or through a clear request.
ClearAllFailed ==
    /\ FailedStep
    /\ \E i \in 1..Len(InFlight) :
           /\ InFlight[i].kind = "clearAll"
           /\ InFlight' = RemoveAt(InFlight, i)

\* C31: clearAllWithDB leaves the snapshot alone when it is invoked, and
\* when its clearAll fails the items, solutions and selection stay as they
\* are, the failure is logged and nothing is raised to the caller.
C31_FailedClearKeepsSnapshot ==
    [][/\ (nCalls' # nCalls /\ Len(InFlight') = Len(InFlight) + 1
             /\ InFlight'[Len(InFlight')].kind = "clearAll")
          => UNCHANGED memVars
       /\ ClearAllFailed
          => /\ UNCHANGED memVars
             /\ consoleErrors' = consoleErrors + 1
             /\ uncaught' = uncaught
             /\ uncaught' = 0]_vars

\* The items loadFromDB installed were enumerated by a clearAllWithDB
\* (their urls are revoked), its clearAll failed, and items, solutions and
\* the stored records are all still there.
C31_Witness ==
    /\ nCalls = 2
    /\ Settled
    /\ consoleErrors = 1
    /\ imageItems # <<>>
    /\ imageSolutions # <<>>
    /\ AllRevoked(imageItems, revoked)
    /\ fileItemsStore # EmptyStore

\* The ids of the items of a list.
ItemIdsOf(items) == {items[i].id : i \in 1..Len(items)}

\* C32 as stated: an item added while clearAllWithDB is suspended on
\* clearAll (it is not among the items the call enumerated) is still in
\* imageItems when the clearAll resolves, and once every operation has
\* settled without failure the items in memory are those that have a record
\* in the fileItems collection.
C32_ArrivalsRetained ==
    /\ [][ClearAllResolved =>
              (ItemIdsOf(imageItems) \ ItemIdsOf(txQueue[1].arg))
                  \subseteq ItemIdsOf(imageItems')]_vars
    /\ [](SettledOK => ItemIdsOf(imageItems) = DOMAIN fileItemsStore)

\* C33 as stated: in every reachable state a display handle is live (never
\* released) exactly while an item of imageItems carries it: every item in
\* memory has a live handle, and every handle created whose item is no
\* longer in memory has been released.
C33_HandleLiveWhileInMemory ==
    \A u \in 1..Len(revoked) :
        (revoked[u] = 0) <=> (\E i \in 1..Len(imageItems) : imageItems[i].url = u)

\* C34 as stated: once every mirror operation has settled without failure,
\* the fileItems collection holds no record for an item that was added (and
\* possibly updated) and then removed with removeImageItem, whether or not
\* the connection was established when the actions were invoked.
C34_RemovedNeverResurrected ==
    SettledOK =>
        \A id \in usedIds :
            id \notin ItemIdsOf(imageItems) => id \notin DOMAIN fileItemsStore

\* A step in which the last read of a loadFromDB resolved and its set() ran.
LoadResolved ==
    /\ ~FailedStep
    /\ \E i \in 1..Len(txQueue) :
           /\ txQueue[i].kind = "loadAppState"
           /\ txQueue' = RemoveAt(txQueue, i)

\* C35 as stated: when loadFromDB has completed successfully, the restored
\* selectedImage is undefined or is the display handle of one of the items
\* now in imageItems.
C35_RestoredSelectionDesignatesItem ==
    [][LoadResolved =>
           \/ selectedImage' = NoUrl
           \/ \E i \in 1..Len(imageItems') :
                  imageItems'[i].url = selectedImage']_vars

\* The ids of a list of items, in the order of the list.
IdsInOrder(items) == [i \in 1..Len(items) |-> items[i].id]

\* C36 as stated: addFileItems keeps the existing items in place and puts
\* the batch after them in the batch's order (the urls of a batch were
\* created in that order); and a loadFromDB invoked once the mirror writes
\* have settled, all successfully, installs the items in the order
\* imageItems had.
C36_BatchOrderSurvivesReload ==
    [][/\ (nCalls' # nCalls /\ imageItems' # imageItems)
          => /\ Len(imageItems') > Len(imageItems)
             /\ SubSeq(imageItems', 1, Len(imageItems)) = imageItems
             /\ \A i \in (Len(imageItems) + 1)..Len(imageItems') :
                    imageItems'[i].url = Len(revoked) + i - Len(imageItems)
       /\ (LoadResolved /\ consoleErrors = 0)
          => IdsInOrder(imageItems') = IdsInOrder(imageItems)]_vars

\* C37 as stated: an adapter returned by getClientForSource() without an
\* id is built from a source that is enabled, in every registry state.
C37_NeverFromDisabledSource ==
    (/\ returned.op = "getClientForSource"
     /\ returned.given = Undefined
     /\ returned.value # Null)
        => \E i \in Qualified : returned.value = AdapterOf(sources[i])

\* C37 amended: getClientForSource() without an id returns an adapter built
\* from an enabled and credentialed source whenever there is one; only when
\* there is none does it draw from the full list, and what it returns then
\* is null or the adapter of a disabled source that has a credential.
C37_DisabledOnlyAsFallback ==
    (returned.op = "getClientForSource" /\ returned.given = Undefined) =>
        /\ Qualified # {} =>
               \E i \in Qualified : returned.value = AdapterOf(sources[i])
        /\ (Qualified = {} /\ returned.value # Null) =>
               \E i \in Credentialed :
                   /\ ~sources[i].enabled
                   /\ returned.value = AdapterOf(sources[i])

\* An enabled source without a credential and a disabled one with a
\* credential: the call without an id returned the adapter of the disabled
\* one.
C37_Witness ==
    /\ returned.op = "getClientForSource"
    /\ returned.given = Undefined
    /\ Qualified = {}
    /\ \E i \in 1..Len(sources) : sources[i].enabled
    /\ \E i \in Credentialed :
           /\ ~sources[i].enabled
           /\ returned.value = AdapterOf(sources[i])
====
